---- MODULE Spec2Model ----
(***************************************************************************)
(* A model of tensorflow_addons' two numeric operators:                    *)
(*   - losses/giou_loss.py    giou_loss, _giou                             *)
(*   - activations/rrelu.py   rrelu                                        *)
(*                                                                         *)
(* Tensors are sequences.  Coordinates are integers; every quotient the    *)
(* code forms is kept as an exact extended value: a reduced fraction, or   *)
(* one of +inf, -inf, NaN, which is what IEEE division by zero yields.     *)
(***************************************************************************)
EXTENDS Integers, Sequences, FiniteSets, TLC

VARIABLES
    y_true, y_pred, dtype, loss,      \* one giou_loss call: inputs and outcome
    gs, call, ref,                    \* the generator, the last rrelu call, an earlier seeded call
    pc, args, out, disturbed          \* two concurrent rrelu calls on one generator

giouVars  == <<y_true, y_pred, dtype, loss>>
rreluVars == <<gs, call, ref>>
concVars  == <<pc, args, out, disturbed>>
vars      == <<y_true, y_pred, dtype, loss, gs, call, ref, pc, args, out, disturbed>>

None == "None"

(***************************************************************************)
(* Bounds of the model.                                                    *)
(***************************************************************************)
MaxCoord == 3        \* box coordinates of the one-row calls range over 0..MaxCoord
MaxRows == 2         \* rows of a batch
MaxSeed == 2         \* seeds and initial generator keys range over 0..MaxSeed
MaxCounter == 4      \* the generator's counter is capped
Grain == 4           \* the generator draws from {0/Grain, ..., (Grain-1)/Grain}

(***************************************************************************)
(* Extended values: the floating-point results of the code.                *)
(***************************************************************************)
Abs(i) == IF i < 0 THEN -i ELSE i

RECURSIVE Gcd(_, _)
Gcd(a, b) == IF b = 0 THEN a ELSE Gcd(b, a % b)

Inf  == [k |-> "inf",  n |-> 0, d |-> 1]
NInf == [k |-> "ninf", n |-> 0, d |-> 1]
NaN  == [k |-> "nan",  n |-> 0, d |-> 1]

\* The finite value n/d (d # 0), reduced, with a positive denominator.
Fin(n, d) ==
    LET g == Gcd(Abs(n), Abs(d))
        s == IF d < 0 THEN -1 ELSE 1
    IN  [k |-> "fin", n |-> (s * n) \div g, d |-> (s * d) \div g]

IsFinite(v) == v.k = "fin"

Neg(v) ==
    CASE v.k = "fin"  -> Fin(-v.n, v.d)
      [] v.k = "inf"  -> NInf
      [] v.k = "ninf" -> Inf
      [] OTHER        -> NaN

\* a / b of finite a, b: x/0 is +inf or -inf by the sign of x, and 0/0 is NaN.
\* (Every zero divisor the code forms is +0: a sum or product of values >= +0.)
Div(a, b) ==
    IF ~(IsFinite(a) /\ IsFinite(b)) THEN NaN
    ELSE IF b.n # 0 THEN Fin(a.n * b.d, a.d * b.n)
    ELSE IF a.n > 0 THEN Inf
    ELSE IF a.n < 0 THEN NInf
    ELSE NaN

Add(a, b) ==
    CASE a.k = "nan" \/ b.k = "nan"       -> NaN
      [] a.k = "fin" /\ b.k = "fin"       -> Fin(a.n * b.d + b.n * a.d, a.d * b.d)
      [] a.k = "fin"                      -> b
      [] b.k = "fin"                      -> a
      [] a.k = b.k                        -> a
      [] OTHER                            -> NaN       \* inf + -inf

Sub(a, b) == Add(a, Neg(b))

Mul(a, b) ==
    IF IsFinite(a) /\ IsFinite(b) THEN Fin(a.n * b.n, a.d * b.d) ELSE NaN

\* Comparisons with NaN are false.
Less(a, b) == IsFinite(a) /\ IsFinite(b) /\ a.n * b.d < b.n * a.d
LessEq(a, b) == IsFinite(a) /\ IsFinite(b) /\ a.n * b.d <= b.n * a.d

Int2Val(i) == Fin(i, 1)

Min(a, b) == IF a <= b THEN a ELSE b
Max(a, b) == IF a >= b THEN a ELSE b

(***************************************************************************)
(* Tensors.  A rank-2 tensor is [rows |-> sequence of rows, cols |-> its   *)
(* second dimension]; a rank-1 tensor is a sequence.  Elementwise          *)
(* operators broadcast a length-1 operand, as the tensor engine does.      *)
(***************************************************************************)
Tensor(rows, cols) == [rows |-> rows, cols |-> cols]

NumRows(b) == Len(b.rows)

\* The length two rank-1 operands broadcast to, or -1 when they do not.
BroadcastStrict(m, n) == IF m = n THEN m ELSE -1
BroadcastLen(m, n) ==
    IF m = n THEN m ELSE IF m = 1 THEN n ELSE IF n = 1 THEN m ELSE -1

At(v, i) == IF Len(v) = 1 THEN v[1] ELSE v[i]

Quotient(a, b) == Div(Int2Val(a), Int2Val(b))

\* The slices b[:, 0] .. b[:, 3] exist only for rows of at least four coordinates;
\* further coordinates are never read.
SliceOk(b) == b.cols >= 4

(***************************************************************************)
(* _giou(b1, b2).  Every operation before the reassembly of iou is         *)
(* elementwise, so row i of each intermediate tensor is computed from row  *)
(* i of b1 and of b2 (p and t below), under the names the code gives.      *)
(***************************************************************************)
\* The area of box t from its own coordinates alone.
OwnArea(t) == (Max(t[1], t[3]) - Min(t[1], t[3])) * (Max(t[2], t[4]) - Min(t[2], t[4]))

\* b2_area as line 106 computes it: the width factor is b2_xmax - b1_xmin.
B2Area(b2_ymin, b2_ymax, b2_xmin, b2_xmax, b1_xmin) ==
    (b2_ymax - b2_ymin) * (b2_xmax - b1_xmin)

Elementwise(p, t) ==
    LET b1_ymin == Min(p[1], p[3])
        b1_xmin == Min(p[2], p[4])
        b1_ymax == Max(p[1], p[3])
        b1_xmax == Max(p[2], p[4])
        b2_ymin == Min(t[1], t[3])
        b2_xmin == Min(t[2], t[4])
        b2_ymax == Max(t[1], t[3])
        b2_xmax == Max(t[2], t[4])
        b1_area == (b1_ymax - b1_ymin) * (b1_xmax - b1_xmin)
        b2_area == B2Area(b2_ymin, b2_ymax, b2_xmin, b2_xmax, b1_xmin)
        intersect_ymin == Max(b1_ymin, b2_ymin)
        intersect_xmin == Max(b1_xmin, b2_xmin)
        intersect_ymax == Min(b1_ymax, b2_ymax)
        intersect_xmax == Min(b1_xmax, b2_xmax)
        intersect_area ==
            Max(0, intersect_ymax - intersect_ymin) * Max(0, intersect_xmax - intersect_xmin)
        union_area == b1_area + b2_area - intersect_area
        bc_ymin == Min(b1_ymin, b2_ymin)
        bc_xmin == Min(b1_xmin, b2_xmin)
        bc_ymax == Max(b1_ymax, b2_ymax)
        bc_xmax == Max(b1_xmax, b2_xmax)
        enclose_area == Max(0, bc_ymax - bc_ymin) * Max(0, bc_xmax - bc_xmin)
    IN  [b1_area        |-> b1_area,
         b2_area        |-> b2_area,
         illegal        |-> (b1_area < 0 \/ b2_area < 0),
         valid          |-> (b1_area >= 0 /\ b2_area >= 0),
         intersect_area |-> intersect_area,
         union_area     |-> union_area,
         iou            |-> Quotient(intersect_area, union_area),
         enclose_area   |-> enclose_area,
         enclose_term   |-> Quotient(enclose_area - union_area, enclose_area)]

\* Every elementwise operation of _giou has a shape once b2_area (the first that
\* mixes b1 and b2) has one.
ShapesOk(b1, b2) == BroadcastLen(NumRows(b2), NumRows(b1)) >= 0

\* The intermediate tensors, one record per row of the broadcast batch.
Intermediate(b1, b2) ==
    [i \in 1..BroadcastLen(NumRows(b1), NumRows(b2)) |->
        Elementwise(At(b1.rows, i), At(b2.rows, i))]

\* tf.where(mask): the 0-based indexes at which mask holds, ascending.
Where(mask) == SelectSeq([i \in 1..Len(mask) |-> i - 1], LAMBDA j : mask[j + 1])

illegal_area_indexes(im) == Where([i \in 1..Len(im) |-> im[i].illegal])
valid_area_indexes(im) == Where([i \in 1..Len(im) |-> im[i].valid])

\* The element type of iou: "/" on integer tensors is true division in float64.
RatioDType(dt) == IF dt = "int32" THEN "float64" ELSE dt

\* The zeros of line 127 are float64 whatever the inputs are; dynamic_stitch
\* takes data tensors of one element type only.
StitchTypesOk(dt) == RatioDType(dt) = "float64"

Gather(v, indexes) == [k \in 1..Len(indexes) |-> v[indexes[k] + 1]]
Zeros(m) == [k \in 1..m |-> Int2Val(0)]

Unset == [k |-> "unset", n |-> 0, d |-> 1]

\* tf.dynamic_stitch on two partitions: merged[indices[m][k]] = data[m][k], the
\* later partition winning; the result has max(indices) + 1 entries.
DynamicStitch(i1, d1, i2, d2) ==
    LET used == {i1[k] : k \in 1..Len(i1)} \cup {i2[k] : k \in 1..Len(i2)}
        size == IF used = {} THEN 0 ELSE (CHOOSE m \in used : \A j \in used : j <= m) + 1
    IN  [p \in 1..size |->
            IF \E k \in 1..Len(i2) : i2[k] = p - 1
            THEN d2[CHOOSE k \in 1..Len(i2) : i2[k] = p - 1]
            ELSE IF \E k \in 1..Len(i1) : i1[k] = p - 1
            THEN d1[CHOOSE k \in 1..Len(i1) : i1[k] = p - 1]
            ELSE Unset]

\* iou after lines 124-129: the ratio at the valid indexes, 0 at the illegal ones.
iou(im) ==
    LET valid == valid_area_indexes(im)
        illegal == illegal_area_indexes(im)
    IN  DynamicStitch(valid, Gather([i \in 1..Len(im) |-> im[i].iou], valid),
                      illegal, Zeros(Len(illegal)))

\* giou = iou - (enclose_area - union_area) / enclose_area
giou(b1, b2) ==
    LET im == Intermediate(b1, b2)
        stitched == iou(im)
    IN  [i \in 1..BroadcastLen(Len(stitched), Len(im)) |->
            Sub(At(stitched, i), At(im, i).enclose_term)]

ShapeError == [status |-> "shape_error", value |-> <<>>]
TypeError  == [status |-> "type_error",  value |-> <<>>]
Returned(v) == [status |-> "ok", value |-> v]

\* _giou: the slices fail first, then the first elementwise operation whose
\* operands do not broadcast, then the stitch of mixed element types.
Giou(b1, b2, dt) ==
    IF ~(SliceOk(b1) /\ SliceOk(b2)) THEN ShapeError
    ELSE IF ~ShapesOk(b1, b2) THEN ShapeError
    ELSE IF ~StitchTypesOk(dt) THEN TypeError
    ELSE Returned(giou(b1, b2))

\* giou_loss(y_true, y_pred): y_pred is b1 and y_true is b2; 1 - giou.  The cast of
\* y_true to y_pred's element type is exact on the integer coordinates used here.
GiouLoss(yt, yp, dt) ==
    LET g == Giou(yp, yt, dt)
    IN  IF g.status = "ok"
        THEN Returned([i \in 1..Len(g.value) |-> Sub(Int2Val(1), g.value[i])])
        ELSE g

DTypes == {"float32", "float64", "int32"}

\* The rows of a batch are drawn from these boxes, widened or cut to the batch's
\* second dimension.
BatchBoxes == {<<0, 0, 1, 1>>, <<2, 2, 3, 3>>, <<1, 1, 0, 0>>, <<0, 2, 1, 2>>}
ColChoices == {3, 4, 5}
Widen(box, c) == [j \in 1..c |-> IF j <= 4 THEN box[j] ELSE 9]

RECURSIVE SeqsUpTo(_, _)
SeqsUpTo(S, n) ==
    IF n = 0 THEN {<<>>}
    ELSE LET shorter == SeqsUpTo(S, n - 1)
         IN  shorter \cup {Append(s, e) : s \in {t \in shorter : Len(t) = n - 1}, e \in S}

Coords == 0..MaxCoord
RowTensors ==
    {Tensor(<<(<<a, b, c, e>>)>>, 4) : a \in Coords, b \in Coords, c \in Coords, e \in Coords}
BatchTensors ==
    {Tensor([i \in 1..Len(s) |-> Widen(s[i], c)], c) :
        s \in SeqsUpTo(BatchBoxes, MaxRows), c \in ColChoices}

NoLoss == [status |-> "pending", value |-> <<>>]

RreluIdle ==
    /\ gs = None /\ call = None /\ ref = None
ConcIdle ==
    /\ pc = None /\ args = None /\ out = None /\ disturbed = None

InitGiouRow ==
    /\ y_true \in RowTensors
    /\ y_pred \in RowTensors
    /\ dtype \in DTypes
    /\ loss = NoLoss
    /\ RreluIdle /\ ConcIdle

InitGiouBatch ==
    /\ y_true \in BatchTensors
    /\ y_pred \in BatchTensors
    /\ dtype \in DTypes
    /\ loss = NoLoss
    /\ RreluIdle /\ ConcIdle

\* One call of giou_loss on the inputs.
CallGiouLoss ==
    /\ loss = NoLoss
    /\ loss' = GiouLoss(y_true, y_pred, dtype)
    /\ UNCHANGED <<y_true, y_pred, dtype, rreluVars, concVars>>

NextGiou == CallGiouLoss

SpecGiouRow == InitGiouRow /\ [][NextGiou]_vars
SpecGiouBatch == InitGiouBatch /\ [][NextGiou]_vars

(***************************************************************************)
(* Properties of giou_loss.  After the call, b1 is y_pred and b2 is y_true.*)
(***************************************************************************)
Called == loss.status # "pending"
Im == Intermediate(y_pred, y_true)
FourByN == y_true.cols = 4 /\ y_pred.cols = 4 /\ NumRows(y_true) = NumRows(y_pred)
OneRow == FourByN /\ NumRows(y_true) = 1

Normalized(t) == <<Min(t[1], t[3]), Min(t[2], t[4]), Max(t[1], t[3]), Max(t[2], t[4])>>
Zero == Int2Val(0)
One == Int2Val(1)

\* C4: the loss of a box of non-zero height and width against itself (in either
\* coordinate order) is 0: the call returns, IOU is 1, the enclosing area equals
\* the union area and the row's loss is 0.
C4_SelfLossIsZero ==
    (Called /\ OneRow
        /\ Normalized(y_true.rows[1]) = Normalized(y_pred.rows[1])
        /\ OwnArea(y_true.rows[1]) # 0)
    => /\ loss.status = "ok"
       /\ iou(Im)[1] = One
       /\ Im[1].enclose_area = Im[1].union_area
       /\ loss.value[1] = Zero

\* The arithmetic of C4 on the calls that return (float64 and int32 inputs).
C4_SelfLossIsZeroWhenReturned ==
    (loss.status = "ok" /\ OneRow
        /\ Normalized(y_true.rows[1]) = Normalized(y_pred.rows[1])
        /\ OwnArea(y_true.rows[1]) # 0)
    => /\ iou(Im)[1] = One
       /\ Im[1].enclose_area = Im[1].union_area
       /\ loss.value[1] = Zero

\* Two boxes do not overlap: their normalized extents are disjoint on an axis.
Disjoint(p, t) ==
    LET a == Normalized(p)
        b == Normalized(t)
    IN  a[3] <= b[1] \/ b[3] <= a[1] \/ a[4] <= b[2] \/ b[4] <= a[2]

\* C5: for boxes of positive area that do not overlap, a call that returns gives
\* IOU 0, union area = the sum of the boxes' own areas, and
\* loss = 1 + (enclosing - union) / enclosing; y_true = [[0,0,1,1]],
\* y_pred = [[2,2,3,3]] gives union area 2, enclosing area 9 and loss 16/9.
C5_DisjointLoss ==
    /\ (loss.status = "ok" /\ OneRow
            /\ OwnArea(y_true.rows[1]) > 0 /\ OwnArea(y_pred.rows[1]) > 0
            /\ Disjoint(y_pred.rows[1], y_true.rows[1]))
        => /\ iou(Im)[1] = Zero
           /\ Im[1].union_area = OwnArea(y_true.rows[1]) + OwnArea(y_pred.rows[1])
           /\ loss.value[1] =
                Add(One, Quotient(Im[1].enclose_area - Im[1].union_area, Im[1].enclose_area))
    /\ (loss.status = "ok" /\ OneRow
            /\ y_true.rows[1] = <<0, 0, 1, 1>> /\ y_pred.rows[1] = <<2, 2, 3, 3>>)
        => /\ Im[1].union_area = 2
           /\ Im[1].enclose_area = 9
           /\ loss.value[1] = Fin(16, 9)

\* C8: for rows of four coordinates each box's area is computed from its own
\* normalized coordinates, so both areas are >= 0 and the row is never flagged.
C8_AreasNonNegative ==
    (Called /\ OneRow)
    => /\ Im[1].b1_area = OwnArea(y_pred.rows[1])
       /\ Im[1].b2_area = OwnArea(y_true.rows[1])
       /\ Im[1].b1_area >= 0 /\ Im[1].b2_area >= 0
       /\ ~Im[1].illegal

\* C10: when the enclosing area and the union area are non-zero, GIOU lies in
\* [-1, 1] and is at most IOU (the enclosing area is at least the union area),
\* so the row's loss lies in [0, 2].
C10_LossRange ==
    (loss.status = "ok" /\ OneRow /\ Im[1].enclose_area # 0 /\ Im[1].union_area # 0)
    => LET g == giou(y_pred, y_true)[1]
       IN  /\ LessEq(Int2Val(-1), g) /\ LessEq(g, One)
           /\ LessEq(g, iou(Im)[1])
           /\ Im[1].enclose_area >= Im[1].union_area
           /\ LessEq(Zero, loss.value[1]) /\ LessEq(loss.value[1], Int2Val(2))

(***************************************************************************)
(* Properties of giou_loss on batches.                                     *)
(***************************************************************************)
SameShape == y_true.cols = y_pred.cols /\ NumRows(y_true) = NumRows(y_pred)

\* C6: whenever the two inputs differ in shape, or a row does not carry exactly
\* four coordinates, the call ends in a shape error.
C6_RejectsMalformed ==
    (Called /\ NumRows(y_true) >= 1 /\ NumRows(y_pred) >= 1
        /\ (~SameShape \/ y_true.cols # 4 \/ y_pred.cols # 4))
    => loss.status = "shape_error"

\* Row i of b read as the code reads it: the first four coordinates, a single
\* row standing for every row.
FirstFour(b, n) == Tensor([i \in 1..n |-> SubSeq(At(b.rows, i), 1, 4)], 4)

\* C6 as amended: the call ends in a shape error exactly when an input's rows
\* carry fewer than four coordinates, or the row counts differ and neither is 1;
\* otherwise a single row is broadcast and coordinates after the fourth are
\* ignored: the outcome is that of the call on the broadcast four-column inputs.
C6_ShapeErrorExactly ==
    Called =>
        LET rt == NumRows(y_true)
            rp == NumRows(y_pred)
            bad == \/ y_true.cols < 4 \/ y_pred.cols < 4
                   \/ (rt # rp /\ rt # 1 /\ rp # 1)
            n == IF rt = 1 THEN rp ELSE rt
        IN  /\ (loss.status = "shape_error") <=> bad
            /\ ~bad => /\ loss.status = "ok" => Len(loss.value) = n
                       /\ loss = GiouLoss(FirstFour(y_true, n), FirstFour(y_pred, n), dtype)

\* A call on one row against two rows of five coordinates returns a loss.
C6_Witness ==
    /\ loss.status = "ok"
    /\ NumRows(y_true) = 1 /\ NumRows(y_pred) = 2
    /\ y_true.cols = 4 /\ y_pred.cols = 5
    /\ Len(loss.value) = 2

Indexes(q) == {q[k] : k \in 1..Len(q)}

\* The reassembled iou of a batch of N rows: N entries, the ratio at the valid
\* rows and 0 at the flagged ones, every row index in exactly one index set.
Reassembled ==
    LET N == NumRows(y_pred)
        valid == valid_area_indexes(Im)
        illegal == illegal_area_indexes(Im)
    IN  /\ Len(iou(Im)) = N
        /\ \A i \in 1..N :
              iou(Im)[i] = IF Im[i].illegal THEN Zero
                           ELSE Quotient(Im[i].intersect_area, Im[i].union_area)
        /\ Indexes(valid) \cup Indexes(illegal) = 0..(N - 1)
        /\ Indexes(valid) \cap Indexes(illegal) = {}
        /\ Len(valid) + Len(illegal) = N

\* C7: for every batch of N rows, valid or flagged invalid, no error is raised
\* and the iou is reassembled in row order.
C7_Reassembly ==
    (Called /\ FourByN /\ NumRows(y_pred) >= 1) => (loss.status = "ok" /\ Reassembled)

\* The reassembly of C7 on the calls that return (float64 and int32 inputs).
C7_ReassemblyWhenReturned == (loss.status = "ok" /\ FourByN) => Reassembled

Without(b, i) ==
    Tensor([k \in 1..(NumRows(b) - 1) |-> IF k < i THEN b.rows[k] ELSE b.rows[k + 1]],
           b.cols)

\* C9: in a call that returns, a row whose union area or enclosing area is zero
\* has a non-finite loss, and the other rows' losses are those of the batch
\* without that row.
C9_DivisionByZero ==
    (loss.status = "ok" /\ FourByN)
    => \A i \in 1..NumRows(y_pred) :
          (Im[i].union_area = 0 \/ Im[i].enclose_area = 0)
          => /\ ~IsFinite(loss.value[i])
             /\ LET rest == GiouLoss(Without(y_true, i), Without(y_pred, i), dtype)
                IN  /\ rest.status = "ok"
                    /\ \A j \in 1..(NumRows(y_pred) - 1) :
                          rest.value[j] = loss.value[IF j < i THEN j ELSE j + 1]

(***************************************************************************)
(* rrelu.  The generator is a counter-based one: its state is a key and a  *)
(* counter, and value number q drawn after a reset is a fixed function of  *)
(* the key and q.                                                          *)
(***************************************************************************)
Generator(key, counter) == [key |-> key, counter |-> counter]

\* The q-th raw draw under a key, in 0..Grain-1.
Bits(key, q) == (5 * key + 3 * q + key * q) % Grain

\* gs.reset_from_seed(seed)
ResetKeepsCounter(g, seed) == Generator(seed, g.counter)
ResetFromSeed(g, seed) == Generator(seed, 0)

\* gs.uniform(shape, minval, maxval): n values of minval + (maxval - minval) * u,
\* u in [0, 1), and the generator advanced past them.
Uniform(g, n, minval, maxval) ==
    [i \in 1..n |->
        Add(minval, Mul(Sub(maxval, minval), Fin(Bits(g.key, g.counter + i - 1), Grain)))]
Advance(g, n) == Generator(g.key, g.counter + n)

\* alpha of the inference branch: (lower + upper) / 2
LowerAlpha(lower, upper) == lower
InferenceAlpha(lower, upper) == Div(Add(lower, upper), Int2Val(2))

\* tf.where(x >= 0, x, alpha * x), alpha a tensor of x's shape
WhereNonNegative(x, alpha) ==
    [i \in 1..Len(x) |-> IF x[i] >= 0 THEN Int2Val(x[i]) ELSE Mul(alpha[i], Int2Val(x[i]))]

\* training as rrelu resolves it: None reads the learning phase.
Training(a) == IF a.training = "none" THEN a.phase ELSE a.training = "true"

\* The generator after the reset step of a call (lines 66-67).
HasSeed(a) == a.seed # <<>>
NoReset(g, a) == g
AfterReset(g, a) ==
    IF Training(a) /\ HasSeed(a) THEN ResetFromSeed(g, a.seed[1]) ELSE g

\* The alpha of a call that samples, or not, from generator state g (lines 68-70).
Alpha(g, a) ==
    IF Training(a) THEN Uniform(g, Len(a.x), a.lower, a.upper)
    ELSE [i \in 1..Len(a.x) |-> InferenceAlpha(a.lower, a.upper)]

AfterSample(g, a) == IF Training(a) THEN Advance(g, Len(a.x)) ELSE g

\* The inputs of the calls.
XChoices == {<<-1>>, <<2, 0, -3>>}
Ranges == {<<Fin(1, 8), Fin(1, 3)>>, <<Fin(0, 1), Fin(2, 1)>>}
Seeds == 0..MaxSeed
CallArgs ==
    {[x |-> x, lower |-> r[1], upper |-> r[2], training |-> t, phase |-> ph, seed |-> sd] :
        x \in XChoices, r \in Ranges, t \in {"true", "false", "none"}, ph \in BOOLEAN,
        sd \in {<<>>} \cup {<<k>> : k \in Seeds}}
SeededTrainingArgs == {a \in CallArgs : a.training = "true" /\ HasSeed(a) /\ ~a.phase}

\* No call made yet.
NoCall == [made |-> FALSE, args |-> <<>>, out |-> <<>>]

GiouIdle ==
    /\ y_true = None /\ y_pred = None /\ dtype = None /\ loss = None

InitRrelu ==
    /\ gs \in {Generator(k, 0) : k \in Seeds}
    /\ call = NoCall
    /\ ref = NoCall
    /\ GiouIdle /\ ConcIdle

IsSeededTraining(c) == c.made /\ Training(c.args) /\ HasSeed(c.args)

\* One whole call rrelu(x, lower, upper, training, seed) on the shared generator.
\* The call before it may be kept as the reference call.
Rrelu(a) ==
    /\ a.training # "none" => ~a.phase
    /\ AfterSample(AfterReset(gs, a), a).counter <= MaxCounter
    /\ LET g == AfterReset(gs, a)
       IN  /\ call' = [made |-> TRUE, args |-> a, out |-> WhereNonNegative(a.x, Alpha(g, a))]
           /\ gs' = AfterSample(g, a)
    /\ ref' \in IF IsSeededTraining(call) THEN {ref, call} ELSE {ref}
    /\ UNCHANGED <<giouVars, concVars>>

NextRrelu == \E a \in CallArgs : Rrelu(a)

SpecRrelu == InitRrelu /\ [][NextRrelu]_vars

\* C1: in inference mode (training = false) the output has x's shape, and each
\* element is x's when that is >= 0 and x * (lower + upper) / 2 when it is < 0.
C1_Inference ==
    (call.made /\ call.args.training = "false")
    => LET a == call.args
       IN  /\ Len(call.out) = Len(a.x)
           /\ \A i \in 1..Len(a.x) :
                 call.out[i] =
                    IF a.x[i] >= 0 THEN Int2Val(a.x[i])
                    ELSE Div(Mul(Int2Val(a.x[i]), Add(a.lower, a.upper)), Int2Val(2))

\* An inference call on a tensor with a negative element, after the generator
\* has been advanced by a training call.
C1_Witness ==
    /\ call.made /\ call.args.training = "false"
    /\ \E i \in 1..Len(call.args.x) : call.args.x[i] < 0 /\ Less(call.out[i], Zero)
    /\ gs.counter > 0

\* C2: a seeded training call returns what any earlier seeded training call with
\* the same x, lower, upper and seed returned, whatever calls ran in between.
C2_SeededRepeatable ==
    (IsSeededTraining(call) /\ ref.made
        /\ call.args.x = ref.args.x /\ call.args.lower = ref.args.lower
        /\ call.args.upper = ref.args.upper /\ call.args.seed = ref.args.seed)
    => call.out = ref.out

\* The same seeded call made twice, the second time on a generator that the
\* first one left advanced.
C2_Witness ==
    /\ IsSeededTraining(call) /\ ref.made
    /\ call.args.x = ref.args.x /\ call.args.lower = ref.args.lower
    /\ call.args.upper = ref.args.upper /\ call.args.seed = ref.args.seed
    /\ call.out = ref.out
    /\ \E i \in 1..Len(call.args.x) : call.args.x[i] < 0

(***************************************************************************)
(* Two rrelu calls in training mode, each with its own seed, running       *)
(* concurrently on one generator.  A call touches the generator twice:     *)
(* gs.reset_from_seed(seed), then gs.uniform(...); the other call's steps  *)
(* may run between the two.                                                *)
(***************************************************************************)
Calls == {1, 2}

InitConcurrent ==
    /\ gs \in {Generator(k, 0) : k \in Seeds}
    /\ args \in [Calls -> SeededTrainingArgs]
    /\ pc = [c \in Calls |-> "reset"]
    /\ out = [c \in Calls |-> <<>>]
    /\ disturbed = [c \in Calls |-> FALSE]
    /\ call = NoCall /\ ref = NoCall
    /\ GiouIdle

\* A step of call c on the generator falls between the reset and the sample of
\* every other call that has reset and not yet sampled.
Disturb(c) ==
    [o \in Calls |-> IF o # c /\ pc[o] = "sample" THEN TRUE ELSE disturbed[o]]

\* Line 67 of call c.
ResetStep(c) ==
    /\ pc[c] = "reset"
    /\ gs' = AfterReset(gs, args[c])
    /\ pc' = [pc EXCEPT ![c] = "sample"]
    /\ disturbed' = Disturb(c)
    /\ UNCHANGED <<args, out, call, ref, giouVars>>

\* Lines 68 and 72 of call c.
SampleStep(c) ==
    /\ pc[c] = "sample"
    /\ out' = [out EXCEPT ![c] = WhereNonNegative(args[c].x, Alpha(gs, args[c]))]
    /\ gs' = AfterSample(gs, args[c])
    /\ pc' = [pc EXCEPT ![c] = "done"]
    /\ disturbed' = Disturb(c)
    /\ UNCHANGED <<args, call, ref, giouVars>>

NextConcurrent == \E c \in Calls : ResetStep(c) \/ SampleStep(c)

SpecRreluConcurrent == InitConcurrent /\ [][NextConcurrent]_vars

\* The output a seeded training call has when it samples the first values of the
\* generator reset from its own seed.
OwnSeedOutput(a) ==
    [i \in 1..Len(a.x) |->
        IF a.x[i] >= 0 THEN Int2Val(a.x[i])
        ELSE Mul(Add(a.lower, Mul(Sub(a.upper, a.lower), Fin(Bits(a.seed[1], i - 1), Grain))),
                 Int2Val(a.x[i]))]

\* C3: under every interleaving each finished call's output is the one
\* determined by its own seed and arguments.
C3_OwnSeedDecides ==
    \A c \in Calls : pc[c] = "done" => out[c] = OwnSeedOutput(args[c])

\* C3 as amended: a finished call's output is the one determined by its own
\* seed and arguments when no generator step of the other call ran between its
\* reset and its sample.
C3_OwnSeedDecidesUndisturbed ==
    \A c \in Calls : (pc[c] = "done" /\ ~disturbed[c]) => out[c] = OwnSeedOutput(args[c])

\* Both calls finished: one undisturbed with its own seed's output, the other
\* disturbed with a different output.
C3_Witness ==
    /\ pc[1] = "done" /\ ~disturbed[1] /\ out[1] = OwnSeedOutput(args[1])
    /\ pc[2] = "done" /\ disturbed[2] /\ out[2] # OwnSeedOutput(args[2])

====
